---- MODULE Spec2Model ----
(***************************************************************************)
(* Model of the two exercises of the repository:                           *)
(*   src/task2.py  items, Inventory, Character, CraftingSystem  (SpecGame) *)
(*   src/task1.py  BankAccount and its three variants           (SpecBank) *)
(*                                                                         *)
(* Weights are kept in tenths of a unit (0.5 is 5, 15.0 is 150).  Every    *)
(* weight used is a multiple of 0.5, so the float sums of the source are   *)
(* exact and the integer sums below agree with them.                       *)
(* Item objects are identified by a short id; every item of the catalog    *)
(* has its own name, as the data model of the inventory assumes.           *)
(***************************************************************************)
EXTENDS Integers, Sequences, FiniteSets, TLC

VARIABLES
    cls,          \* game: the Character subclass ("warrior", "mage", "archer")
    pool,         \* game: the Item objects the caller has constructed
    items,        \* game: character.inventory.items, Item -> quantity
    health,       \* game: character.health
    equipment,    \* game: character.equipment, slot -> Item or None
    level,        \* game: character.level
    pre,          \* game: inventory.items as it was before the last call
    kind,         \* bank: the BankAccount subclass
    balance,      \* bank: account.balance
    history,      \* bank: account.transaction_history
    credit_limit, \* bank: CreditAccount.credit_limit
    opening,      \* bank: the initial_balance the account was opened with
    registered,   \* recipes: CraftingSystem._recipes
    earlier,      \* recipes: the call before the last one
    last          \* the last call: its name, arguments and return value

vars == <<cls, pool, items, health, equipment, level, pre,
          kind, balance, history, credit_limit, opening,
          registered, earlier, last>>

gameVars == <<cls, pool, items, health, equipment, level, pre>>
bankVars == <<kind, balance, history, credit_limit, opening>>
recipeVars == <<registered, earlier>>

\* Python's None, for an Item-valued result or slot
None == "None"

\* Python's min of two numbers
Min(a, b) == IF a < b THEN a ELSE b

\* -------------------------------------------------------------------------
\* Bounds of the model
\* -------------------------------------------------------------------------

\* largest quantity argument, and largest quantity an entry is let grow to
MaxQty == 2

\* the quantity arguments of the calls: quantity is any int, and -1 stands for
\* the negative ones
QtyArgs == -1 .. MaxQty

\* -------------------------------------------------------------------------
\* task2.py: the items
\* -------------------------------------------------------------------------

Weapon(name, weight, damage, weapon_class) ==
    [type |-> "weapon", name |-> name, weight |-> weight, value |-> damage,
     tag |-> weapon_class]

Armor(name, weight, defense) ==
    [type |-> "armor", name |-> name, weight |-> weight, value |-> defense,
     tag |-> ""]

Potion(name, weight, effect, value) ==
    [type |-> "consumable", name |-> name, weight |-> weight, value |-> value,
     tag |-> effect]

Material(name, weight, material_type) ==
    [type |-> "material", name |-> name, weight |-> weight, value |-> 0,
     tag |-> material_type]

\* The Item objects of the model: two weapons, the potion and the Wood of the
\* demonstration script, the three results of initialize_recipes, and as further
\* inputs a potion with another effect than "heal", a heavy armor and a Crystal.
Catalog ==
    ( "potion"  :> Potion("Health Potion", 5, "heal", 50) ) @@
    ( "mana"    :> Potion("Mana Potion", 5, "mana", 30) ) @@
    ( "bow"     :> Weapon("Longbow", 30, 28, "bow") ) @@
    ( "sword"   :> Weapon("Steel Sword", 60, 30, "sword") ) @@
    ( "plate"   :> Armor("Plate Armor", 170, 40) ) @@
    ( "wood"    :> Material("Wood", 10, "wood") ) @@
    ( "crystal" :> Material("Crystal", 5, "gem") ) @@
    ( "iron_sword"    :> Weapon("Iron Sword", 50, 25, "sword") ) @@
    ( "wooden_staff"  :> Weapon("Wooden Staff", 30, 20, "staff") ) @@
    ( "leather_armor" :> Armor("Leather Armor", 80, 15) )

ItemIds == DOMAIN Catalog

\* the sets of Item objects a caller works with
Crafter == {"wood", "crystal", "plate"}
Healer  == {"potion", "mana"}
Fighter == {"bow", "sword"}

\* hit points the character has lost before the calls start
Wounds == {0, 50, 70}

Classes == {"warrior", "mage", "archer"}

\* the starting points: the character's class, the caller's items and the
\* character's lost hit points
Scenarios ==
    { [cls |-> "mage", pool |-> Crafter, wound |-> 0] }
    \cup { [cls |-> c, pool |-> Fighter, wound |-> 0] : c \in Classes }
    \cup { [cls |-> c, pool |-> Healer, wound |-> w] : c \in Classes, w \in Wounds }

\* -------------------------------------------------------------------------
\* task2.py: Inventory
\* -------------------------------------------------------------------------

RECURSIVE SumWeight(_, _)
SumWeight(its, S) ==
    IF S = {} THEN 0
    ELSE LET i == CHOOSE x \in S : TRUE
         IN  Catalog[i].weight * its[i] + SumWeight(its, S \ {i})

calculate_weight(its) == SumWeight(its, DOMAIN its)

\* the mapping with its[i] set to q
Put(its, i, q) ==
    [x \in (DOMAIN its) \cup {i} |-> IF x = i THEN q ELSE its[x]]

\* the mapping after del its[i]
Del(its, i) == [x \in (DOMAIN its) \ {i} |-> its[x]]

\* a variant that compares the weight held now, not the weight after the call
add_item_ok_current_weight(its, max_weight, i, q) ==
    ~ (calculate_weight(its) > max_weight)

add_item_ok(its, max_weight, i, q) ==
    ~ (calculate_weight(its) + Catalog[i].weight * q > max_weight)

add_item(its, max_weight, i, q) ==
    IF ~ add_item_ok(its, max_weight, i, q) THEN its
    ELSE IF i \in DOMAIN its THEN Put(its, i, its[i] + q)
    ELSE Put(its, i, q)

remove_item_ok(its, i, q) ==
    ~ (i \notin DOMAIN its \/ its[i] < q)

\* a variant that never deletes an entry
remove_item_keeps_entry(its, i, q) ==
    IF i \notin DOMAIN its \/ its[i] < q THEN its
    ELSE Put(its, i, its[i] - q)

remove_item(its, i, q) ==
    IF ~ remove_item_ok(its, i, q) THEN its
    ELSE IF its[i] - q = 0 THEN Del(its, i)
    ELSE Put(its, i, its[i] - q)

get_item_by_name(its, name) ==
    IF \E i \in DOMAIN its : Catalog[i].name = name
    THEN CHOOSE i \in DOMAIN its : Catalog[i].name = name
    ELSE None

\* -------------------------------------------------------------------------
\* task2.py: Character
\* -------------------------------------------------------------------------

InitialHealth(c) ==
    CASE c = "warrior" -> 150
      [] c = "mage"    -> 80
      [] c = "archer"  -> 100

MaxHealth(c) == InitialHealth(c)

MaxWeight(c) ==
    CASE c = "warrior" -> 800
      [] c = "mage"    -> 400
      [] c = "archer"  -> 600

allowed_weapons(c) ==
    CASE c = "warrior" -> {"sword", "axe", "mace"}
      [] c = "mage"    -> {"staff", "wand"}
      [] c = "archer"  -> {"bow", "crossbow"}

\* a variant without the class restriction
can_equip_weapon_any(c, weapon) == TRUE

can_equip_weapon(c, weapon) == Catalog[weapon].tag \in allowed_weapons(c)

\* Potion.use: the health after the potion
potion_health(c, h, p) ==
    IF Catalog[p].tag = "heal"
    THEN Min(MaxHealth(c), h + Catalog[p].value)
    ELSE h

Bool(b) == IF b THEN "True" ELSE "False"

Recipe(name, required_level, ingredients, result) ==
    [name |-> name, required_level |-> required_level,
     ingredients |-> ingredients, result |-> result]

\* CraftingSystem._recipes after initialize_recipes; an ingredients dict is the
\* sequence of its (name, quantity) pairs in insertion order
recipes ==
    << Recipe("Iron Sword", 1, << <<"Iron Ore", 3>>, <<"Wood", 1>> >>, "iron_sword"),
       Recipe("Wooden Staff", 1, << <<"Wood", 2>>, <<"Crystal", 1>> >>, "wooden_staff"),
       Recipe("Leather Armor", 2, << <<"Leather", 4>>, <<"Thread", 2>> >>, "leather_armor") >>

Call(op, arg, qty, ret) == [op |-> op, arg |-> arg, qty |-> qty, ret |-> ret]

InitGame ==
    /\ \E s \in Scenarios :
          /\ cls = s.cls
          /\ pool = s.pool
                /\ health = InitialHealth(s.cls) - s.wound
    /\ items = <<>>
    /\ equipment = [weapon |-> None, armor |-> None]
    /\ level = 1
    /\ pre = <<>>
    /\ kind = "none"
    /\ balance = 0
    /\ history = <<>>
    /\ credit_limit = 0
    /\ opening = 0
    /\ registered = recipes
    /\ earlier = Call("init", "", 0, None)
    /\ last = Call("init", "", 0, None)

\* names a caller asks for: those of the items at hand and one that no item has
Names(S) == { Catalog[i].name : i \in S } \cup { "Nothing" }

InBounds(its) ==
    \A i \in DOMAIN its : its[i] >= -1 /\ its[i] <= MaxQty

AddItem(i, q) ==
    /\ InBounds(add_item(items, MaxWeight(cls), i, q))
    /\ items' = add_item(items, MaxWeight(cls), i, q)
    /\ pre' = items
    /\ last' = Call("add_item", i, q, Bool(add_item_ok(items, MaxWeight(cls), i, q)))
    /\ UNCHANGED <<cls, pool, health, equipment, level>>
    /\ UNCHANGED bankVars
    /\ UNCHANGED recipeVars

RemoveItem(i, q) ==
    /\ InBounds(remove_item(items, i, q))
    /\ items' = remove_item(items, i, q)
    /\ pre' = items
    /\ last' = Call("remove_item", i, q, Bool(remove_item_ok(items, i, q)))
    /\ UNCHANGED <<cls, pool, health, equipment, level>>
    /\ UNCHANGED bankVars
    /\ UNCHANGED recipeVars

\* Item.use of the four item types, as the return value of Character.use_item
use_ret(c, item) ==
    IF item = None THEN "False"
    ELSE CASE Catalog[item].type = "weapon"     -> Bool(can_equip_weapon(c, item))
           [] Catalog[item].type = "armor"      -> "True"
           [] Catalog[item].type = "consumable" -> "True"
           [] Catalog[item].type = "material"   -> "False"

use_equipment(c, eq, item) ==
    IF item = None THEN eq
    ELSE CASE Catalog[item].type = "weapon" ->
                IF can_equip_weapon(c, item)
                THEN [eq EXCEPT !.weapon = item] ELSE eq
           [] Catalog[item].type = "armor" -> [eq EXCEPT !.armor = item]
           [] OTHER -> eq

use_health(c, h, item) ==
    IF item # None /\ Catalog[item].type = "consumable"
    THEN potion_health(c, h, item) ELSE h

use_items(its, item) ==
    IF item # None /\ Catalog[item].type = "consumable"
    THEN remove_item(its, item, 1) ELSE its

UseItem(name) ==
    LET item == get_item_by_name(items, name) IN
    /\ items' = use_items(items, item)
    /\ health' = use_health(cls, health, item)
    /\ equipment' = use_equipment(cls, equipment, item)
    /\ pre' = items
    /\ last' = Call("use_item", name, 0, use_ret(cls, item))
    /\ UNCHANGED <<cls, pool, level>>
    /\ UNCHANGED bankVars
    /\ UNCHANGED recipeVars

\* -------------------------------------------------------------------------
\* task2.py: CraftingSystem
\* -------------------------------------------------------------------------

\* the check of one ingredient
has_ingredient(its, ing) ==
    LET item == get_item_by_name(its, ing[1])
    IN  ~ (item = None \/ its[item] < ing[2])

\* the level check and the first loop of craft_item
craft_ok(its, lvl, recipe) ==
    /\ ~ (lvl < recipe.required_level)
    /\ \A k \in 1 .. Len(recipe.ingredients) :
          has_ingredient(its, recipe.ingredients[k])

\* the second loop of craft_item from ingredient k on
RECURSIVE consume(_, _, _)
consume(its, ings, k) ==
    IF k > Len(ings) THEN its
    ELSE consume(remove_item(its, get_item_by_name(its, ings[k][1]), ings[k][2]),
                 ings, k + 1)

\* a variant with one loop, which removes each ingredient as soon as it is checked
RECURSIVE check_and_consume(_, _, _)
check_and_consume(its, ings, k) ==
    IF k > Len(ings) THEN [ok |-> TRUE, items |-> its]
    ELSE IF ~ has_ingredient(its, ings[k]) THEN [ok |-> FALSE, items |-> its]
    ELSE check_and_consume(
             remove_item(its, get_item_by_name(its, ings[k][1]), ings[k][2]),
             ings, k + 1)

craft_items_one_loop(its, max_weight, lvl, recipe) ==
    IF lvl < recipe.required_level THEN its
    ELSE LET done == check_and_consume(its, recipe.ingredients, 1)
         IN  IF done.ok THEN add_item(done.items, max_weight, recipe.result, 1)
             ELSE done.items

\* the inventory after craft_item
craft_items(its, max_weight, lvl, recipe) ==
    IF ~ craft_ok(its, lvl, recipe) THEN its
    ELSE add_item(consume(its, recipe.ingredients, 1), max_weight, recipe.result, 1)

craft_ret(its, lvl, recipe) ==
    IF craft_ok(its, lvl, recipe) THEN recipe.result ELSE None

CraftItem(r) ==
    /\ InBounds(craft_items(items, MaxWeight(cls), level, recipes[r]))
    /\ items' = craft_items(items, MaxWeight(cls), level, recipes[r])
    /\ pre' = items
    /\ last' = Call("craft_item", recipes[r].name, 0, craft_ret(items, level, recipes[r]))
    /\ UNCHANGED <<cls, pool, health, equipment, level>>
    /\ UNCHANGED bankVars
    /\ UNCHANGED recipeVars

NextGame ==
    \/ \E r \in 1 .. Len(recipes) : CraftItem(r)
    \/ \E i \in pool \cup DOMAIN items, q \in QtyArgs : AddItem(i, q)
    \/ \E i \in pool \cup DOMAIN items, q \in QtyArgs : RemoveItem(i, q)
    \/ \E name \in Names(pool \cup DOMAIN items) : UseItem(name)

SpecGame == InitGame /\ [][NextGame]_vars

\* -------------------------------------------------------------------------
\* task2.py: CraftingSystem.initialize_recipes and available_recipes
\* -------------------------------------------------------------------------

\* largest character_level asked for
MaxLevel == 9

Levels == 0 .. MaxLevel

\* the list comprehension of available_recipes from position k on
RECURSIVE available_from(_, _, _)
available_from(reg, character_level, k) ==
    IF k > Len(reg) THEN << >>
    ELSE (IF reg[k].required_level <= character_level
          THEN << reg[k] >> ELSE << >>)
         \o available_from(reg, character_level, k + 1)

\* a variant that wants the character above the required level
available_recipes_strict(reg, character_level) ==
    available_from(reg, character_level - 1, 1)

available_recipes(reg, character_level) ==
    available_from(reg, character_level, 1)

\* the class before initialize_recipes is called: _recipes is empty
InitRecipes ==
    /\ registered = << >>
    /\ earlier = Call("init", "", 0, None)
    /\ last = Call("init", "", 0, None)
    /\ cls = "none"
    /\ pool = {}
    /\ items = << >>
    /\ health = 0
    /\ equipment = [weapon |-> None, armor |-> None]
    /\ level = 0
    /\ pre = << >>
    /\ kind = "none"
    /\ balance = 0
    /\ history = << >>
    /\ credit_limit = 0
    /\ opening = 0

InitializeRecipes ==
    /\ registered' = recipes
    /\ earlier' = last
    /\ last' = Call("initialize_recipes", "", 0, None)
    /\ UNCHANGED gameVars
    /\ UNCHANGED bankVars

AvailableRecipes(character_level) ==
    /\ registered' = registered
    /\ earlier' = last
    /\ last' = Call("available_recipes", "", character_level,
                    available_recipes(registered, character_level))
    /\ UNCHANGED gameVars
    /\ UNCHANGED bankVars

NextRecipes ==
    \/ InitializeRecipes
    \/ \E character_level \in Levels : AvailableRecipes(character_level)

SpecRecipes == InitRecipes /\ [][NextRecipes]_vars

\* -------------------------------------------------------------------------
\* Properties of the inventory, the character and the crafting system
\* -------------------------------------------------------------------------

\* the quantity held of item i, 0 when the mapping has no entry for it
Quantity(its, i) == IF i \in DOMAIN its THEN its[i] ELSE 0

\* the mappings a and b agree on every item but i
SameElsewhere(a, b, i) ==
    /\ (DOMAIN a) \ {i} = (DOMAIN b) \ {i}
    /\ \A j \in (DOMAIN a) \ {i} : a[j] = b[j]

CharacterUnchanged ==
    /\ items' = items
    /\ equipment' = equipment
    /\ health' = health
    /\ level' = level

\* C1: in every reachable state the total weight of the inventory, the sum of
\* item.weight * quantity over its entries, is at most max_weight.
WeightWithinMax ==
    cls \in Classes => calculate_weight(items) <= MaxWeight(cls)

\* C2: in every reachable state every entry of the items mapping has a
\* quantity of at least 1.
QuantitiesAtLeastOne == \A i \in DOMAIN items : items[i] >= 1

\* the recipe lacks the level or an ingredient: the character's level is below
\* required_level, or for some ingredient the inventory holds no item of that
\* name or fewer than the required quantity
CannotCraft(recipe) ==
    \/ level < recipe.required_level
    \/ \E k \in 1 .. Len(recipe.ingredients) :
         \/ \A i \in DOMAIN items : Catalog[i].name # recipe.ingredients[k][1]
         \/ \E i \in DOMAIN items :
              /\ Catalog[i].name = recipe.ingredients[k][1]
              /\ items[i] < recipe.ingredients[k][2]

\* C3: a craft_item call whose level check or some ingredient check fails
\* returns None and leaves inventory, equipment, health and level as they were.
CraftFailureAtomic ==
    [][ \A r \in 1 .. Len(recipes) :
          (last'.op = "craft_item" /\ last'.arg = recipes[r].name
             /\ CannotCraft(recipes[r]))
          => (last'.ret = None /\ CharacterUnchanged) ]_vars

\* a Wooden Staff was refused for its second ingredient, the Crystal, while the
\* first, two Wood, was held: the Wood is still there
CraftRefusedOnSecondIngredient ==
    /\ last.op = "craft_item" /\ last.arg = "Wooden Staff" /\ last.ret = None
    /\ Quantity(items, "wood") >= 2
    /\ "crystal" \notin DOMAIN items
    /\ pre = items

\* C4: a craft_item call that returns an item has removed the required
\* quantity of every ingredient and has added one unit of the result: the
\* quantity held of the result is one more than before the call.
CraftAddsResult ==
    [][ \A r \in 1 .. Len(recipes) :
          (last'.op = "craft_item" /\ last'.arg = recipes[r].name
             /\ last'.ret # None)
          => /\ last'.ret = recipes[r].result
             /\ Quantity(items', recipes[r].result)
                  = Quantity(items, recipes[r].result) + 1
             /\ \A k \in 1 .. Len(recipes[r].ingredients) :
                  \A i \in DOMAIN items :
                    Catalog[i].name = recipes[r].ingredients[k][1]
                    => Quantity(items', i) = items[i] - recipes[r].ingredients[k][2] ]_vars

\* C5: add_item(item, quantity) returns True and raises the item's quantity by
\* exactly quantity if and only if the total weight plus item.weight * quantity
\* is at most max_weight; otherwise it returns False and items is unchanged.
AddItemContract ==
    [][ last'.op = "add_item" =>
          LET i == last'.arg
              q == last'.qty
              fits == calculate_weight(items) + Catalog[i].weight * q
                        <= MaxWeight(cls)
          IN  /\ last'.ret = "True" <=> fits
              /\ fits => /\ i \in DOMAIN items'
                         /\ items'[i] = Quantity(items, i) + q
                         /\ SameElsewhere(items', items, i)
              /\ ~ fits => items' = items ]_vars

\* one more unit of an item already held was refused and the inventory kept
AddRefusedForWeight ==
    /\ last.op = "add_item" /\ last.ret = "False" /\ last.qty = 1
    /\ last.arg \in DOMAIN items
    /\ pre = items
    /\ calculate_weight(items) <= MaxWeight(cls)

\* C6: remove_item(item, quantity) returns True if and only if the item is
\* present with a quantity of at least quantity; then the quantity drops by
\* exactly quantity and the entry is deleted when it reaches zero; otherwise
\* it returns False and items is unchanged.
RemoveItemContract ==
    [][ last'.op = "remove_item" =>
          LET i == last'.arg
              q == last'.qty
              held == i \in DOMAIN items /\ items[i] >= q
          IN  /\ last'.ret = "True" <=> held
              /\ held => /\ SameElsewhere(items', items, i)
                         /\ IF items[i] - q = 0
                            THEN i \notin DOMAIN items'
                            ELSE i \in DOMAIN items' /\ items'[i] = items[i] - q
              /\ ~ held => items' = items ]_vars

\* all units of an item were removed and its entry is gone
RemovedLastUnits ==
    /\ last.op = "remove_item" /\ last.ret = "True" /\ last.qty >= 1
    /\ last.arg \in DOMAIN pre /\ pre[last.arg] = last.qty
    /\ last.arg \notin DOMAIN items

\* C7: a successful add_item(item, q) followed at once by remove_item(item, q)
\* succeeds and restores the items mapping to what it was before the add.
AddRemoveRoundTrip ==
    [][ (last.op = "add_item" /\ last.ret = "True"
           /\ last'.op = "remove_item" /\ last'.arg = last.arg
           /\ last'.qty = last.qty)
        => (last'.ret = "True" /\ items' = pre) ]_vars

\* C8: using a Potion held in the inventory sets health to
\* min(max_health, health + value) and removes one unit of the potion, and
\* health never exceeds max_health.
PotionUse ==
    [][ /\ \A p \in DOMAIN items :
             (Catalog[p].type = "consumable" /\ last'.op = "use_item"
                /\ last'.arg = Catalog[p].name)
             => /\ health' = (IF health + Catalog[p].value > MaxHealth(cls)
                              THEN MaxHealth(cls)
                              ELSE health + Catalog[p].value)
                /\ Quantity(items', p) = items[p] - 1
                /\ SameElsewhere(items', items, p)
        /\ health' <= MaxHealth(cls) ]_vars

\* the allowed weapon classes as the specification lists them
AllowedBySpec(c) ==
    CASE c = "warrior" -> {"sword", "axe", "mace"}
      [] c = "mage"    -> {"staff", "wand"}
      [] c = "archer"  -> {"bow", "crossbow"}

\* C9: use_item on a Weapon of the inventory returns True and sets
\* equipment["weapon"] to it if and only if the weapon's class is allowed to the
\* character's class, and otherwise returns False with the equipment unchanged;
\* use_item with a name not in the inventory, or naming a Material, returns
\* False and changes nothing.
UseItemWeaponContract ==
    [][ last'.op = "use_item" =>
          LET held == { i \in DOMAIN items : Catalog[i].name = last'.arg }
          IN  /\ held = {} => (last'.ret = "False" /\ CharacterUnchanged)
              /\ \A i \in held :
                   /\ Catalog[i].type = "material"
                        => (last'.ret = "False" /\ CharacterUnchanged)
                   /\ Catalog[i].type = "weapon"
                        => LET allowed == Catalog[i].tag \in AllowedBySpec(cls)
                           IN  /\ last'.ret = "True" <=> allowed
                               /\ allowed => equipment' =
                                               [equipment EXCEPT !.weapon = i]
                               /\ ~ allowed => equipment' = equipment ]_vars

\* an Archer with the Longbow equipped was refused the Steel Sword it holds,
\* and the bow is still in the slot
ArcherRefusedSword ==
    /\ cls = "archer"
    /\ last.op = "use_item" /\ last.arg = "Steel Sword" /\ last.ret = "False"
    /\ "sword" \in DOMAIN items
    /\ equipment.weapon = "bow"

\* -------------------------------------------------------------------------
\* Properties of the recipe list
\* -------------------------------------------------------------------------

\* res holds exactly the entries of reg with required_level <= lvl, in the
\* order they have in reg
ExactlyTheAllowed(res, reg, lvl) ==
    LET idx == { k \in 1 .. Len(reg) : reg[k].required_level <= lvl }
    IN  /\ Len(res) = Cardinality(idx)
        /\ \A k \in idx : res[Cardinality({ m \in idx : m <= k })] = reg[k]

\* a can be had from b by leaving entries out
IsSubsequence(a, b) ==
    \E f \in [1 .. Len(a) -> 1 .. Len(b)] :
        /\ \A j \in 1 .. Len(a) : a[j] = b[f[j]]
        /\ \A j \in 1 .. Len(a) : \A n \in 1 .. Len(a) : j < n => f[j] < f[n]

\* C11: available_recipes(level) returns exactly the registered recipes with
\* required_level <= level, in registration order, and leaves the recipe list
\* as it was; of two calls in a row the one with the lower level returns a
\* subsequence of what the one with the higher level returns.
AvailableRecipesContract ==
    [][ last'.op = "available_recipes" =>
          /\ registered' = registered
          /\ ExactlyTheAllowed(last'.ret, registered, last'.qty)
          /\ (earlier'.op = "available_recipes" /\ earlier'.qty <= last'.qty)
               => IsSubsequence(earlier'.ret, last'.ret)
          /\ (earlier'.op = "available_recipes" /\ last'.qty <= earlier'.qty)
               => IsSubsequence(last'.ret, earlier'.ret) ]_vars

\* level 1 was asked after level 2: two recipes of the three came back, in
\* the order of registration, after all three
TwoOfThreeRecipes ==
    /\ Len(registered) = 3
    /\ earlier.op = "available_recipes" /\ earlier.qty = 2
    /\ Len(earlier.ret) = 3
    /\ last.op = "available_recipes" /\ last.qty = 1
    /\ Len(last.ret) = 2
    /\ last.ret[1].name = "Iron Sword" /\ last.ret[2].name = "Wooden Staff"

\* -------------------------------------------------------------------------
\* task1.py: BankAccount, CurrentAccount, SavingsAccount, CreditAccount
\* -------------------------------------------------------------------------

\* longest transaction_history the model lets an account grow
MaxHist == 4

daily_limit == 50000
monthly_limit == 100000
default_credit_limit == 10000

Kinds == {"current", "savings", "credit"}

\* the arguments of the calls
Openings == {-10000, 0, 50000, 200000}
CreditLimits == {default_credit_limit, 50000}
Amounts == {-10000, 0, 10000, 60000, 110000}
Rates == {-5, 0, 5}

\* one record of transaction_history (its date left out)
Transaction(type, amount, balance_after) ==
    [type |-> type, amount |-> amount, balance_after |-> balance_after]

\* a variant that forgets the balance of a current or savings account
get_withdrawal_limit_policy_only(k, b, cl) ==
    CASE k = "current" -> daily_limit
      [] k = "savings" -> monthly_limit
      [] k = "credit"  -> cl + b

get_withdrawal_limit(k, b, cl) ==
    CASE k = "current" -> Min(b, daily_limit)
      [] k = "savings" -> Min(b, monthly_limit)
      [] k = "credit"  -> cl + b

deposit_ok(amount) == ~ (amount <= 0)

deposit_balance(b, amount) ==
    IF deposit_ok(amount) THEN b + amount ELSE b

\* a variant that records the balance before the deposit
deposit_history_old_balance(h, b, amount) ==
    IF deposit_ok(amount)
    THEN Append(h, Transaction("deposit", amount, b))
    ELSE h

deposit_history(h, b, amount) ==
    IF deposit_ok(amount)
    THEN Append(h, Transaction("deposit", amount, b + amount))
    ELSE h

\* a variant that refuses a withdrawal of exactly the limit
withdraw_ok_below_limit(k, b, cl, amount) ==
    ~ (amount <= 0) /\ ~ (amount >= get_withdrawal_limit(k, b, cl))

withdraw_ok(k, b, cl, amount) ==
    ~ (amount <= 0) /\ ~ (amount > get_withdrawal_limit(k, b, cl))

withdraw_balance(k, b, cl, amount) ==
    IF withdraw_ok(k, b, cl, amount) THEN b - amount ELSE b

withdraw_history(h, k, b, cl, amount) ==
    IF withdraw_ok(k, b, cl, amount)
    THEN Append(h, Transaction("withdrawal", amount, b - amount))
    ELSE h

\* BankAccount.__init__ and the __init__ of the three subclasses
InitBank ==
    /\ kind \in Kinds
    /\ opening \in Openings
    /\ balance = opening
    /\ history = IF opening > 0
                 THEN << Transaction("opening", opening, opening) >>
                 ELSE << >>
    /\ credit_limit \in IF kind = "credit" THEN CreditLimits ELSE {0}
    /\ cls = "none"
    /\ pool = {}
    /\ items = << >>
    /\ health = 0
    /\ equipment = [weapon |-> None, armor |-> None]
    /\ level = 0
    /\ pre = << >>
    /\ registered = << >>
    /\ earlier = Call("init", "", 0, None)
    /\ last = Call("init", "", 0, None)

Deposit(amount) ==
    /\ Len(deposit_history(history, balance, amount)) <= MaxHist
    /\ balance' = deposit_balance(balance, amount)
    /\ history' = deposit_history(history, balance, amount)
    /\ last' = Call("deposit", "", amount, Bool(deposit_ok(amount)))
    /\ UNCHANGED <<kind, credit_limit, opening>>
    /\ UNCHANGED gameVars
    /\ UNCHANGED recipeVars

Withdraw(amount) ==
    /\ Len(withdraw_history(history, kind, balance, credit_limit, amount)) <= MaxHist
    /\ balance' = withdraw_balance(kind, balance, credit_limit, amount)
    /\ history' = withdraw_history(history, kind, balance, credit_limit, amount)
    /\ last' = Call("withdraw", "", amount,
                    Bool(withdraw_ok(kind, balance, credit_limit, amount)))
    /\ UNCHANGED <<kind, credit_limit, opening>>
    /\ UNCHANGED gameVars
    /\ UNCHANGED recipeVars

\* SavingsAccount.accrue_interest: balance * rate / 100 is a float division, and
\* the step is taken where it is exact
interest(b, rate) == (b * rate) \div 100

AccrueInterest(rate) ==
    /\ kind = "savings"
    /\ (balance * rate) % 100 = 0
    /\ Len(deposit_history(history, balance, interest(balance, rate))) <= MaxHist
    /\ balance' = deposit_balance(balance, interest(balance, rate))
    /\ history' = deposit_history(history, balance, interest(balance, rate))
    /\ last' = Call("accrue_interest", "", rate, None)
    /\ UNCHANGED <<kind, credit_limit, opening>>
    /\ UNCHANGED gameVars
    /\ UNCHANGED recipeVars

NextBank ==
    \/ \E amount \in Amounts : Deposit(amount)
    \/ \E amount \in Amounts : Withdraw(amount)
    \/ \E rate \in Rates : AccrueInterest(rate)

SpecBank == InitBank /\ [][NextBank]_vars

\* -------------------------------------------------------------------------
\* Properties of the bank accounts
\* -------------------------------------------------------------------------

\* C10: deposit(amount) with amount <= 0, and withdraw(amount) with
\* amount <= 0 or amount > get_withdrawal_limit(), return False and leave
\* balance and transaction_history unchanged; otherwise they return True and
\* change the balance by exactly +amount or -amount.
RejectedCallsChangeNothing ==
    [][ /\ last'.op = "deposit" =>
             IF last'.qty <= 0
             THEN last'.ret = "False" /\ balance' = balance /\ history' = history
             ELSE last'.ret = "True" /\ balance' = balance + last'.qty
        /\ last'.op = "withdraw" =>
             IF \/ last'.qty <= 0
                \/ last'.qty > get_withdrawal_limit(kind, balance, credit_limit)
             THEN last'.ret = "False" /\ balance' = balance /\ history' = history
             ELSE last'.ret = "True" /\ balance' = balance - last'.qty ]_vars

\* a current account holding more than the daily limit was refused a
\* withdrawal above that limit which its balance would cover
WithdrawalOverDailyLimitRefused ==
    /\ kind = "current"
    /\ last.op = "withdraw" /\ last.ret = "False"
    /\ last.qty > daily_limit /\ last.qty <= balance

IsPrefix(h, g) ==
    /\ Len(h) <= Len(g)
    /\ \A k \in 1 .. Len(h) : g[k] = h[k]

\* deposits minus withdrawals among the first k records of h
RECURSIVE NetMovement(_, _)
NetMovement(h, k) ==
    IF k = 0 THEN 0
    ELSE NetMovement(h, k - 1)
         + (CASE h[k].type = "deposit"    -> h[k].amount
              [] h[k].type = "withdrawal" -> 0 - h[k].amount
              [] OTHER                    -> 0)

LedgerAgrees ==
    /\ history # << >> => history[Len(history)].balance_after = balance
    /\ balance = opening + NetMovement(history, Len(history))

\* C13: transaction_history only grows at its end; a successful deposit or
\* withdraw appends exactly one record and a failed one none; the last record's
\* balance_after is the balance, and the balance is the opening amount plus the
\* deposits minus the withdrawals of the history.
LedgerConsistent ==
    /\ LedgerAgrees
    /\ [][ /\ IsPrefix(history, history')
           /\ last'.op \in {"deposit", "withdraw"} =>
                IF last'.ret = "True"
                THEN Len(history') = Len(history) + 1
                ELSE history' = history
           /\ LedgerAgrees' ]_vars

\* an account with an opening record, a deposit and a withdrawal after it
OpenedDepositedWithdrawn ==
    /\ Len(history) = 3
    /\ history[1].type = "opening"
    /\ history[2].type = "deposit"
    /\ history[3].type = "withdrawal"
    /\ last.op = "withdraw" /\ last.ret = "True"
    /\ balance = opening + history[2].amount - history[3].amount

====
